---- MODULE Spec2Model ----
(***************************************************************************)
(* A model of BootlegCraft (main_fixed_v2.py): the MyGame object, its      *)
(* input handlers, the per-frame update task and the engine's per-frame    *)
(* collision traversal that refills MyGame.rayQueue.                       *)
(*                                                                         *)
(* Geometry is kept on the integer lattice.  Angles are multiples of 90    *)
(* degrees, so sin and cos are exact; the frame time enters as the product *)
(* dt * playerMoveSpeed (= dt * cameraSwingFactor), drawn from DtSteps;    *)
(* the pointer moves between the positions of Pointers.  A ray enters a    *)
(* block's CollisionBox when it passes through the interior of one face    *)
(* and the ray origin lies outside the box.  Frames whose ray starts       *)
(* inside a box, or runs along a face plane or an edge of one, are not     *)
(* followed (CleanRay).                                                    *)
(*                                                                         *)
(* The scene graph under render is kept as the node counter nextId, the    *)
(* nodes attached explicitly (placed) and the nodes removeNode detached    *)
(* (removed).  SpecTerrain runs the loops of generateTerrain node by node;  *)
(* Spec starts from the constructed game, where the terrain nodes are read *)
(* from GenerateTerrain and placed holds the nodes placeBlock attached.    *)
(* Blocks is the resulting set of block nodes.                             *)
(***************************************************************************)
EXTENDS Integers, Sequences, FiniteSets, TLC

\* ------------------------------------------------------------ bounds
MaxInputs == 2       \* key events, pointer motions, Escape / Continue presses together
MaxClicks == 2       \* mouse1 / mouse3 events
MaxFrames == 1       \* frames (update + collision traversal)

\* dt * playerMoveSpeed of a frame, in world units
DtSteps  == {2, 9, 11}
\* pointer positions (pixels) the window reports
Pointers == {<<0, 0>>, <<0, 90>>, <<90, 0>>}

\* ------------------------------------------------------------ program constants
TerrainX == 20
TerrainY == 20
TerrainZ == 10
RemoveRange == 12
PlaceRange  == 14
PlaceOffset  == 2

BlockTypes == {"grass", "dirt", "sand", "stone"}
Actions    == {"forward", "backward", "left", "right", "up", "down"}
None       == 0      \* what getPythonTag returns for a tag that is not set

VARIABLES
    pc,                   \* "terrain" | "run" | "collide" | "crashed" | "exited"
    loop,                 \* <<z, y, x>> of generateTerrain's loops
    nextId,               \* id of the next node createNewBlock attaches to render
    placed,               \* node id -> [pos, hpr, type] of the nodes placeBlock created
    removed,              \* nodes removeNode took out of the scene graph
    cleared,              \* collision nodes whose 'owner' tag was cleared
    selectedBlockType,
    menuActive,
    cameraSwingActivated,
    keyMap,
    camPos, camHpr,       \* self.camera
    lastMouse,            \* <<lastMouseX, lastMouseY>>
    pointer,              \* the window's pointer
    cursorHidden,         \* WindowProperties requested last
    menuShown,            \* menuFrame shown
    rayQueue,             \* CollisionHandlerQueue: entries [into, normal, dist]
    last,                 \* history: what the last click read and did
    lastSelected,         \* history: type of the last numeric key, "grass" at startup
    count                 \* events and frames so far, by kind

vars == <<pc, loop, nextId, placed, removed, cleared, selectedBlockType, menuActive,
          cameraSwingActivated, keyMap, camPos, camHpr, lastMouse, pointer,
          cursorHidden, menuShown, rayQueue, last, lastSelected, count>>

\* ------------------------------------------------------------ vectors and angles
Add(u, v)   == <<u[1] + v[1], u[2] + v[2], u[3] + v[3]>>
Sub(u, v)   == <<u[1] - v[1], u[2] - v[2], u[3] - v[3]>>
Scale(u, k) == <<u[1] * k, u[2] * k, u[3] * k>>
Dot(u, v)   == u[1] * v[1] + u[2] * v[2] + u[3] * v[3]
Abs(n)      == IF n < 0 THEN -n ELSE n
Min(a, b)   == IF a < b THEN a ELSE b
Max(a, b)   == IF a > b THEN a ELSE b

\* sin and cos of a multiple of 90 degrees
Sin(deg) == CASE deg % 360 = 0 -> 0 [] deg % 360 = 90 -> 1
              [] deg % 360 = 180 -> 0 [] deg % 360 = 270 -> -1
Cos(deg) == Sin(deg + 90)

\* squared distance between two node origins (NodePath.getDistance, squared)
Dist2(p, q) == Dot(Sub(p, q), Sub(p, q))

\* A vector of render's frame in the frame of a node under render whose only
\* rotation is the pitch hpr[2] (0 or 90).  Pitch turns the node's +Y towards
\* +Z of render, so the node's axes lie along render's <<1,0,0>>, <<0,0,1>>
\* and <<0,-1,0>>.
WorldToLocal(v, hpr) == IF hpr[2] = 90 THEN <<v[1], v[3], -v[2]>> ELSE v

\* The camera's forward axis (the ray of setFromLens(camNode, (0, 0))).
Forward(hpr) == <<-Sin(hpr[1]) * Cos(hpr[2]), Cos(hpr[1]) * Cos(hpr[2]), Sin(hpr[2])>>

\* ------------------------------------------------------------ createNewBlock
\* The node createNewBlock builds: setPos, the model of the type, setHpr for
\* grass, and a collision box tagged with the node as its 'owner'.
NewBlockNode(x, y, z, blockType) ==
    [pos  |-> <<x, y, z>>,
     hpr  |-> IF blockType = "grass" THEN <<0, 90, 0>> ELSE <<0, 0, 0>>,
     type |-> blockType]

\* createNewBlock attaches the node under render (bs), as node id.
CreateNewBlock(bs, id, x, y, z, blockType) ==
    (id :> NewBlockNode(x, y, z, blockType)) @@ bs

\* ------------------------------------------------------------ generateTerrain
TerrainCount == TerrainX * TerrainY * TerrainZ

\* The block the loops create at iteration <<z, y, x>>
TerrainPos(z, y, x)  == <<x * 2 - 20, y * 2 - 20, -z * 2>>
TerrainTypeTwoLayers(z) == IF z <= 1 THEN "grass" ELSE "dirt"
TerrainType(z)       == IF z = 0 THEN "grass" ELSE "dirt"

\* The innermost loop, for x in range(20), from x on: what it attaches to bs,
\* the first node as node id.
RECURSIVE TerrainRow(_, _, _, _, _)
TerrainRow(bs, id, z, y, x) ==
    IF x >= TerrainX THEN bs
    ELSE TerrainRow(CreateNewBlock(bs, id, TerrainPos(z, y, x)[1], TerrainPos(z, y, x)[2],
                                   TerrainPos(z, y, x)[3], TerrainType(z)),
                    id + 1, z, y, x + 1)

\* One iteration of the loop over y (a whole run of the innermost loop), then
\* the loops over y and z increment.
GenerateTerrainStep ==
    /\ pc = "terrain"
    /\ loop[1] < TerrainZ
    /\ LET z == loop[1]
           y == loop[2]
       IN  /\ placed' = TerrainRow(placed, nextId, z, y, 0)
           /\ nextId' = nextId + TerrainX
           /\ loop' = IF y + 1 < TerrainY THEN <<z, y + 1, 0>> ELSE <<z + 1, 0, 0>>
    /\ UNCHANGED <<pc, removed, cleared, selectedBlockType, menuActive,
                   cameraSwingActivated, keyMap, camPos, camHpr, lastMouse, pointer,
                   cursorHidden, menuShown, rayQueue, last, lastSelected, count>>

\* The loops run z, then y, then x: iteration <<z, y, x>> attaches node
\* TerrainIndex(z, y, x).
TerrainIndex(z, y, x) == (z * TerrainY + y) * TerrainX + x + 1

\* The whole of generateTerrain: the nodes under render after the loops.
GenerateTerrain ==
    LET Row(z, y)  == [x \in 0..(TerrainX - 1) |->
                         NewBlockNode(TerrainPos(z, y, x)[1], TerrainPos(z, y, x)[2],
                                      TerrainPos(z, y, x)[3], TerrainType(z))]
        made == [i \in 1..TerrainCount |->
                   Row((i - 1) \div (TerrainX * TerrainY),
                       ((i - 1) % (TerrainX * TerrainY)) \div TerrainX)[(i - 1) % TerrainX]]
    IN  made @@ <<>>

\* The scene graph under render.  While __init__ runs, placed holds the nodes
\* the loops of generateTerrain attached; once the game runs it holds the
\* nodes placeBlock attached, and a terrain node is read from GenerateTerrain.
NodeOf(id) == IF id \in DOMAIN placed THEN placed[id] ELSE GenerateTerrain[id]
InWorld    == (1..(nextId - 1)) \ removed
Blocks     == [id \in InWorld |-> NodeOf(id)]

NoClick == [op |-> "none", entries |-> 0, into |-> None, owner |-> None,
            d2 |-> -1, done |-> FALSE, face |-> <<0, 0, 0>>]

ZeroCount == [k \in {"key", "move", "select", "toggle", "click", "frame"} |-> 0]

\* captureMouse / releaseMouse: <<cameraSwingActivated, lastMouse, cursorHidden>>
CaptureMouse(ptr) == <<TRUE, ptr, TRUE>>

\* The rest of __init__ after generateTerrain: setupCamera, captureMouse,
\* setupControls, createMenu, and the update task is added.  The terrain the
\* loops built is GenerateTerrain, and is read from there from now on.
FinishInit ==
    /\ pc = "terrain"
    /\ loop[1] = TerrainZ
    /\ placed = GenerateTerrain
    /\ placed' = <<>>
    /\ pc' = "run"
    /\ camPos' = <<0, 0, 3>>
    /\ camHpr' = <<0, 0, 0>>
    /\ rayQueue' = <<>>
    /\ cameraSwingActivated' = CaptureMouse(pointer)[1]
    /\ lastMouse' = CaptureMouse(pointer)[2]
    /\ cursorHidden' = CaptureMouse(pointer)[3]
    /\ menuShown' = FALSE
    /\ UNCHANGED <<loop, nextId, removed, cleared, selectedBlockType, menuActive,
                   keyMap, pointer, last, lastSelected, count>>

\* __init__ up to the call of generateTerrain
InitTerrain ==
    /\ pc = "terrain"
    /\ loop = <<0, 0, 0>>
    /\ nextId = 1
    /\ placed = <<>>
    /\ removed = {}
    /\ cleared = {}
    /\ selectedBlockType = "grass"
    /\ menuActive = FALSE
    /\ cameraSwingActivated = FALSE
    /\ keyMap = [a \in Actions |-> FALSE]
    /\ camPos = <<0, 0, 0>>
    /\ camHpr = <<0, 0, 0>>
    /\ pointer = <<0, 0>>
    /\ lastMouse = <<0, 0>>
    /\ cursorHidden = FALSE
    /\ menuShown = FALSE
    /\ rayQueue = <<>>
    /\ last = NoClick
    /\ lastSelected = "grass"
    /\ count = ZeroCount

NextTerrain == GenerateTerrainStep \/ FinishInit

SpecTerrain == InitTerrain /\ [][NextTerrain]_vars

\* The state after construction (MyGame()), before the first frame.
Init ==
    /\ pc = "run"
    /\ loop = <<TerrainZ, 0, 0>>
    /\ nextId = TerrainCount + 1
    /\ placed = <<>>
    /\ removed = {}
    /\ cleared = {}
    /\ selectedBlockType = "grass"
    /\ menuActive = FALSE
    /\ keyMap = [a \in Actions |-> FALSE]
    /\ camPos = <<0, 0, 3>>
    /\ camHpr = <<0, 0, 0>>
    /\ pointer = <<0, 0>>
    /\ cameraSwingActivated = CaptureMouse(pointer)[1]
    /\ lastMouse = CaptureMouse(pointer)[2]
    /\ cursorHidden = CaptureMouse(pointer)[3]
    /\ menuShown = FALSE
    /\ rayQueue = <<>>
    /\ last = NoClick
    /\ lastSelected = "grass"
    /\ count = ZeroCount

\* ------------------------------------------------------------ input handlers
Inputs == count["key"] + count["move"] + count["select"] + count["toggle"]
Bump(kind) == [count EXCEPT ![kind] = @ + 1]

\* updateKeyMap(key, value), bound to <key> and <key>-up
UpdateKeyMap(action, value) ==
    /\ pc = "run"
    /\ Inputs < MaxInputs
    /\ keyMap[action] # value      \* the keyboard sends <key> for a key that is up, <key>-up for one that is down
    /\ keyMap' = [keyMap EXCEPT ![action] = value]
    /\ count' = Bump("key")
    /\ UNCHANGED <<pc, loop, nextId, placed, removed, cleared, selectedBlockType, menuActive,
                   cameraSwingActivated, camPos, camHpr, lastMouse, pointer,
                   cursorHidden, menuShown, rayQueue, lastSelected, last>>

\* setSelectedBlockType(blockType), bound to the keys 1..4
SetSelectedBlockType(blockType) ==
    /\ pc = "run"
    /\ Inputs < MaxInputs
    /\ selectedBlockType' = blockType
    /\ lastSelected' = blockType
    /\ count' = Bump("select")
    /\ UNCHANGED <<pc, loop, nextId, placed, removed, cleared, menuActive,
                   cameraSwingActivated, keyMap, camPos, camHpr, lastMouse, pointer,
                   cursorHidden, menuShown, rayQueue, last>>

\* The user moves the pointer (no handler runs; update reads it).
MouseMove ==
    /\ pc = "run"
    /\ Inputs < MaxInputs
    /\ pointer' \in Pointers \ {pointer}
    /\ count' = Bump("move")
    /\ UNCHANGED <<pc, loop, nextId, placed, removed, cleared, selectedBlockType, menuActive,
                   cameraSwingActivated, keyMap, camPos, camHpr, lastMouse,
                   cursorHidden, menuShown, rayQueue, lastSelected, last>>

ReleaseMouse(lm) == <<FALSE, lm, FALSE>>

\* toggleMenu
ToggleMenu ==
    /\ pc = "run"
    /\ Inputs < MaxInputs
    /\ IF menuActive
       THEN /\ menuShown' = FALSE
            /\ menuActive' = FALSE
            /\ cameraSwingActivated' = CaptureMouse(pointer)[1]
            /\ lastMouse' = CaptureMouse(pointer)[2]
            /\ cursorHidden' = CaptureMouse(pointer)[3]
       ELSE /\ menuShown' = TRUE
            /\ menuActive' = TRUE
            /\ cameraSwingActivated' = ReleaseMouse(lastMouse)[1]
            /\ lastMouse' = ReleaseMouse(lastMouse)[2]
            /\ cursorHidden' = ReleaseMouse(lastMouse)[3]
    /\ count' = Bump("toggle")
    /\ UNCHANGED <<pc, loop, nextId, placed, removed, cleared, selectedBlockType, keyMap,
                   camPos, camHpr, pointer, rayQueue, lastSelected, last>>

\* 'escape' is bound to toggleMenu
Escape == ToggleMenu

\* The Continue button (command = toggleMenu) can be pressed while the menu
\* frame is shown.
ContinueButton == menuShown /\ ToggleMenu

\* The Exit button: exitGame -> userExit
ExitGame ==
    /\ pc = "run"
    /\ menuShown
    /\ pc' = "exited"
    /\ UNCHANGED <<loop, nextId, placed, removed, cleared, selectedBlockType, menuActive,
                   cameraSwingActivated, keyMap, camPos, camHpr, lastMouse, pointer,
                   cursorHidden, menuShown, rayQueue, lastSelected, count, last>>

\* ------------------------------------------------------------ update
\* The camera position update computes from the key map, for a frame of
\* step = dt * playerMoveSpeed.
Movement(step) ==
    LET h  == camHpr[1]
        fx == IF keyMap["forward"]  THEN -step * Sin(h) ELSE 0
        fy == IF keyMap["forward"]  THEN  step * Cos(h) ELSE 0
        bx == IF keyMap["backward"] THEN  step * Sin(h) ELSE 0
        by == IF keyMap["backward"] THEN -step * Cos(h) ELSE 0
        lx == IF keyMap["left"]     THEN -step * Cos(h) ELSE 0
        ly == IF keyMap["left"]     THEN -step * Sin(h) ELSE 0
        rx == IF keyMap["right"]    THEN  step * Cos(h) ELSE 0
        ry == IF keyMap["right"]    THEN  step * Sin(h) ELSE 0
        uz == IF keyMap["up"]       THEN  step ELSE 0
        dz == IF keyMap["down"]     THEN -step ELSE 0
    IN  <<fx + bx + lx + rx, fy + by + ly + ry, uz + dz>>

\* The orientation update sets when the camera swing is activated
\* (heading kept modulo 360).
Swing(step) ==
    LET mouseChangeX == pointer[1] - lastMouse[1]
        mouseChangeY == pointer[2] - lastMouse[2]
    IN  <<(camHpr[1] - mouseChangeX * step) % 360,
          Min(90, Max(-90, camHpr[2] - mouseChangeY * step)),
          0>>

UpdateNeverSkips == FALSE
\* Whether update returns at once
UpdateSkips == menuActive

\* update(task), once per frame; the collision traversal follows it.
Update ==
    /\ pc = "run"
    /\ count["frame"] < MaxFrames
    /\ \E step \in DtSteps :
         IF UpdateSkips
         THEN UNCHANGED <<camPos, camHpr, lastMouse>>
         ELSE /\ camPos' = Add(camPos, Movement(step))
              /\ IF cameraSwingActivated
                 THEN /\ camHpr' = Swing(step)
                      /\ lastMouse' = pointer
                 ELSE UNCHANGED <<camHpr, lastMouse>>
    /\ pc' = "collide"
    /\ count' = Bump("frame")
    /\ UNCHANGED <<loop, nextId, placed, removed, cleared, selectedBlockType, menuActive,
                   cameraSwingActivated, keyMap, pointer, cursorHidden, menuShown,
                   rayQueue, lastSelected, last>>

\* ------------------------------------------------------------ collision traversal
\* The ray from o along the axis d enters the box of half-width 1 around c
\* through the interior of a face, at distance Dot(c - o, d) - 1.
Beside(o, d, ck, k) == d[k] = 0 => Abs(ck - o[k]) < 1
Pierces(o, d, c) ==
    /\ \A k \in 1..3 : Beside(o, d, c[k], k)
    /\ Dot(Sub(c, o), d) >= 1

\* The ray has a point in common with the closed box around c.
Along(o, d, ck, k) == d[k] = 0 => Abs(ck - o[k]) <= 1
Touches(o, d, c) ==
    /\ \A k \in 1..3 : Along(o, d, c[k], k)
    /\ Dot(Sub(c, o), d) >= -1

EntryOf(o, d, id) ==
    [into |-> id, normal |-> Scale(d, -1), dist |-> Dot(Sub(NodeOf(id).pos, o), d) - 1]

RECURSIVE InIdOrder(_)
InIdOrder(S) ==
    IF S = {} THEN <<>>
    ELSE LET m == CHOOSE i \in S : \A j \in S : i <= j
         IN  <<m>> \o InIdOrder(S \ {m})

\* cTrav.traverse(render): the queue is cleared and gets one entry per
\* block the ray enters, in the order of the nodes under render.
RayCandidates ==
    LET d    == Forward(camHpr)
        \* terrain nodes, by the loop coordinates that built them
        xs   == {x \in 0..(TerrainX - 1) : Along(camPos, d, TerrainPos(0, 0, x)[1], 1)}
        ys   == {y \in 0..(TerrainY - 1) : Along(camPos, d, TerrainPos(0, y, 0)[2], 2)}
        zs   == {z \in 0..(TerrainZ - 1) : Along(camPos, d, TerrainPos(z, 0, 0)[3], 3)}
        near == {TerrainIndex(c[1], c[2], c[3]) : c \in zs \X ys \X xs}
        \* and the nodes placeBlock built
        cand == (near \cup DOMAIN placed) \cap InWorld
    IN  {i \in cand : Touches(camPos, d, NodeOf(i).pos)}

Traversal ==
    LET d    == Forward(camHpr)
        hits == {i \in RayCandidates : Pierces(camPos, d, NodeOf(i).pos)}
        ids  == InIdOrder(hits)
    IN  [k \in 1..Len(ids) |-> EntryOf(camPos, d, ids[k])]

\* A frame is followed when every box the ray touches is entered from outside
\* through the interior of a face; a frame whose ray starts inside a box or runs
\* along a face or an edge of one is left out of the behaviours.
CleanRay == \A i \in RayCandidates : Pierces(camPos, Forward(camHpr), NodeOf(i).pos)

Traverse ==
    /\ pc = "collide"
    /\ CleanRay
    /\ rayQueue' = Traversal
    /\ pc' = "run"
    /\ UNCHANGED <<loop, nextId, placed, removed, cleared, selectedBlockType, menuActive,
                   cameraSwingActivated, keyMap, camPos, camHpr, lastMouse, pointer,
                   cursorHidden, menuShown, lastSelected, count, last>>

\* ------------------------------------------------------------ the ray queue
\* sortEntries orders the entries by ascending distance; which of several
\* nearest entries at the same distance comes first is not determined, the
\* rest keep an insertion sort's order.
RECURSIVE InsertByDist(_, _)
InsertByDist(e, q) ==
    IF q = <<>> THEN <<e>>
    ELSE IF e.dist < Head(q).dist THEN <<e>> \o q
    ELSE <<Head(q)>> \o InsertByDist(e, Tail(q))

RECURSIVE SortByDist(_)
SortByDist(q) ==
    IF q = <<>> THEN <<>> ELSE InsertByDist(Head(q), SortByDist(Tail(q)))

RemoveAt(q, i) == [k \in 1..(Len(q) - 1) |-> IF k < i THEN q[k] ELSE q[k + 1]]

Nearest(q) == {i \in 1..Len(q) : \A j \in 1..Len(q) : q[i].dist <= q[j].dist}

SortEntries(q, i) == <<q[i]>> \o SortByDist(RemoveAt(q, i))

\* hitNodePath.getPythonTag('owner'): createNewBlock tags a block's collision
\* node with the block's own node; removeBlock clears the tag.
Owner(into) == IF into \in cleared THEN None ELSE into

\* rayHit.getSurfaceNormal(hitNodePath): the normal of the struck face in the
\* coordinate space of the collision node, which is the space of the block
\* node it hangs under.
GetSurfaceNormal(rayHit) == WorldToLocal(rayHit.normal, NodeOf(rayHit.into).hpr)

InRemoveRangeInclusive(d2) == d2 <= RemoveRange * RemoveRange
\* distanceFromPlayer < 12, on the squared distance
InRemoveRange(d2) == d2 < RemoveRange * RemoveRange
InPlaceRangeInclusive(d2) == d2 <= PlaceRange * PlaceRange
\* distanceFromPlayer < 14, on the squared distance
InPlaceRange(d2)  == d2 < PlaceRange * PlaceRange

\* hitObject.removeNode()
RemoveNode(rm, id) == rm \cup {id}

PlacedTypeDefault == "grass"
\* The block type placeBlock hands to createNewBlock
PlacedType == selectedBlockType

\* placeBlock, bound to 'mouse1'
PlaceBlock ==
    /\ pc = "run"
    /\ count["click"] < MaxClicks
    /\ count' = Bump("click")
    /\ IF Len(rayQueue) > 0
       THEN \E i \in Nearest(rayQueue) :
              LET q         == SortEntries(rayQueue, i)
                  rayHit    == q[1]
                  hitObject == Owner(rayHit.into)
              IN  /\ rayQueue' = q
                  /\ IF hitObject = None
                     THEN \* None.getDistance raises AttributeError
                          /\ pc' = "crashed"
                          /\ last' = [op |-> "place", entries |-> Len(q),
                                      into |-> rayHit.into, owner |-> None,
                                      d2 |-> -1, done |-> FALSE, face |-> rayHit.normal]
                          /\ UNCHANGED <<placed, nextId>>
                     ELSE LET d2 == Dist2(NodeOf(hitObject).pos, camPos)
                          IN  /\ pc' = pc
                              /\ last' = [op |-> "place", entries |-> Len(q),
                                          into |-> rayHit.into, owner |-> hitObject,
                                          d2 |-> d2, done |-> InPlaceRange(d2),
                                          face |-> rayHit.normal]
                              /\ IF InPlaceRange(d2)
                                 THEN LET hitBlockPos == NodeOf(hitObject).pos
                                          newBlockPos == Add(hitBlockPos,
                                                Scale(GetSurfaceNormal(rayHit), PlaceOffset))
                                      IN  /\ placed' = CreateNewBlock(placed, nextId,
                                                newBlockPos[1], newBlockPos[2],
                                                newBlockPos[3], PlacedType)
                                          /\ nextId' = nextId + 1
                                 ELSE UNCHANGED <<placed, nextId>>
       ELSE /\ last' = [op |-> "place", entries |-> 0, into |-> None, owner |-> None,
                        d2 |-> -1, done |-> FALSE, face |-> <<0, 0, 0>>]
            /\ UNCHANGED <<pc, rayQueue, placed, nextId>>
    /\ UNCHANGED <<loop, removed, cleared, selectedBlockType, menuActive,
                   cameraSwingActivated, keyMap, camPos, camHpr, lastMouse, pointer,
                   cursorHidden, menuShown, lastSelected>>

\* handleLeftClick, bound to 'mouse3': captureMouse, then removeBlock
HandleLeftClick ==
    /\ pc = "run"
    /\ count["click"] < MaxClicks
    /\ count' = Bump("click")
    /\ cameraSwingActivated' = CaptureMouse(pointer)[1]
    /\ lastMouse' = CaptureMouse(pointer)[2]
    /\ cursorHidden' = CaptureMouse(pointer)[3]
    /\ IF Len(rayQueue) > 0
       THEN \E i \in Nearest(rayQueue) :
              LET q         == SortEntries(rayQueue, i)
                  rayHit    == q[1]
                  hitObject == Owner(rayHit.into)
              IN  /\ rayQueue' = q
                  /\ IF hitObject = None
                     THEN \* None.getDistance raises AttributeError
                          /\ pc' = "crashed"
                          /\ last' = [op |-> "remove", entries |-> Len(q),
                                      into |-> rayHit.into, owner |-> None,
                                      d2 |-> -1, done |-> FALSE, face |-> rayHit.normal]
                          /\ UNCHANGED <<removed, cleared>>
                     ELSE LET d2 == Dist2(NodeOf(hitObject).pos, camPos)
                          IN  /\ pc' = pc
                              /\ last' = [op |-> "remove", entries |-> Len(q),
                                          into |-> rayHit.into, owner |-> hitObject,
                                          d2 |-> d2, done |-> InRemoveRange(d2),
                                          face |-> rayHit.normal]
                              /\ IF InRemoveRange(d2)
                                 THEN /\ cleared' = cleared \cup {rayHit.into}
                                      /\ removed' = RemoveNode(removed, hitObject)
                                 ELSE UNCHANGED <<removed, cleared>>
       ELSE /\ last' = [op |-> "remove", entries |-> 0, into |-> None, owner |-> None,
                        d2 |-> -1, done |-> FALSE, face |-> <<0, 0, 0>>]
            /\ UNCHANGED <<pc, rayQueue, removed, cleared>>
    /\ UNCHANGED <<loop, nextId, placed, selectedBlockType, menuActive, keyMap,
                   camPos, camHpr, pointer, menuShown, lastSelected>>

\* ------------------------------------------------------------ the program
Next ==
    \/ \E a \in Actions, v \in BOOLEAN : UpdateKeyMap(a, v)
    \/ \E t \in BlockTypes : SetSelectedBlockType(t)
    \/ MouseMove
    \/ Escape
    \/ ContinueButton
    \/ ExitGame
    \/ PlaceBlock
    \/ HandleLeftClick
    \/ Update
    \/ Traverse

Spec == Init /\ [][Next]_vars

\* ------------------------------------------------------------ steps and changes of the world
PlaceStep  == count'["click"] = count["click"] + 1 /\ last'.op = "place"
RemoveStep == count'["click"] = count["click"] + 1 /\ last'.op = "remove"

\* The scene graph after the step, against the one before: Blocks' = Blocks,
\* Blocks' is Blocks without node id, Blocks' is Blocks with the new node id.
SameBlocks      == nextId' = nextId /\ placed' = placed /\ removed' = removed
OnlyDeleted(id) == /\ id \in InWorld
                   /\ nextId' = nextId /\ placed' = placed
                   /\ removed' = removed \cup {id}
OnlyAdded(id)   == /\ id = nextId /\ nextId' = nextId + 1
                   /\ removed' = removed
                   /\ DOMAIN placed' = DOMAIN placed \cup {id}
                   /\ \A i \in DOMAIN placed : placed'[i] = placed[i]

\* The nearest entry of the queue a click read: the first after the sort,
\* which is an entry of the queue as the traversal left it, none nearer.
FirstRead == rayQueue'[1]
FirstIsNearest ==
    \E i \in 1..Len(rayQueue) :
        /\ rayQueue[i] = FirstRead
        /\ \A j \in 1..Len(rayQueue) : rayQueue[i].dist <= rayQueue[j].dist

\* ------------------------------------------------------------ claims
\* C1: a right click deletes a block if and only if the ray queue is not
\* empty and the block owning the nearest entry lies at a distance strictly
\* below 12 from the camera; then exactly that block is deleted and every
\* other block is unchanged; at 12 or more nothing is deleted.
C1_RemoveWithinRange ==
    [][RemoveStep =>
        IF /\ Len(rayQueue) > 0
           /\ FirstRead.into \notin cleared
           /\ Dist2(NodeOf(FirstRead.into).pos, camPos) < 12 * 12
        THEN FirstIsNearest /\ OnlyDeleted(FirstRead.into)
        ELSE SameBlocks]_vars

\* A removal happened: the nearest block was within range and is gone.
C1_Witness ==
    /\ last.op = "remove" /\ last.done
    /\ last.d2 < 12 * 12
    /\ last.owner \notin InWorld

\* A right click at a distance of exactly 12 left the block in place.
C1_AtTwelve ==
    /\ last.op = "remove" /\ ~last.done
    /\ last.d2 = 12 * 12
    /\ last.owner \in InWorld

\* C2: a left click adds exactly one block if and only if the ray queue is
\* not empty and the block owning the nearest entry lies at a distance
\* strictly below 14 from the camera; at 14 or more nothing is added; no
\* existing block is deleted or moved.
C2_PlaceWithinRange ==
    [][PlaceStep =>
        IF /\ Len(rayQueue) > 0
           /\ FirstRead.into \notin cleared
           /\ Dist2(NodeOf(FirstRead.into).pos, camPos) < 14 * 14
        THEN FirstIsNearest /\ OnlyAdded(nextId)
        ELSE SameBlocks]_vars

\* A placement happened beyond the removal range.
C2_Witness ==
    /\ last.op = "place" /\ last.done
    /\ last.d2 >= 12 * 12 /\ last.d2 < 14 * 14
    /\ (nextId - 1) \in DOMAIN placed

\* A left click at a distance of exactly 14 added nothing.
C2_AtFourteen ==
    /\ last.op = "place" /\ ~last.done
    /\ last.d2 = 14 * 14

\* C3: whenever a placement succeeds, the new block stands at the hit
\* block's position plus 2 along the outward normal of the struck face, for
\* every type of the hit block and every face.
C3_AdjacentCell ==
    [][(PlaceStep /\ last'.done) =>
          placed'[nextId].pos =
              Add(NodeOf(last'.owner).pos, Scale(last'.face, 2))]_vars

\* C4: with an empty ray queue, a left click and a right click change
\* nothing: blocks, selected type, camera pose, menu and pointer capture.
C4_NoOpOnEmptyQueue ==
    [][((PlaceStep \/ RemoveStep) /\ Len(rayQueue) = 0) =>
          /\ SameBlocks
          /\ UNCHANGED <<selectedBlockType, camPos, camHpr, menuActive, menuShown,
                         cameraSwingActivated, cursorHidden>>]_vars

\* C5: after generateTerrain the world holds exactly 4000 blocks, one at each
\* position (2x-20, 2y-20, -2z), x, y in 0..19, z in 0..9, all distinct;
\* the 400 with z = 0 are grass, the other 3600 dirt.  While the loops run,
\* the nodes attached so far are those of the iterations done.
C5_Terrain ==
    /\ (pc = "terrain" /\ loop[1] < TerrainZ) =>
          /\ nextId = TerrainIndex(loop[1], loop[2], loop[3])
          /\ DOMAIN placed = 1..(nextId - 1)
          /\ \A i \in DOMAIN placed :
                /\ placed[i].pos[3] >= -2 * loop[1]
                /\ placed[i].type = "grass" <=> placed[i].pos[3] = 0
                /\ placed[i].type \in {"grass", "dirt"}
    /\ (pc # "terrain" \/ loop[1] = TerrainZ) =>
          /\ Cardinality(DOMAIN Blocks) = 4000
          /\ {Blocks[i].pos : i \in DOMAIN Blocks} =
                {<<2 * x - 20, 2 * y - 20, -2 * z>> : x \in 0..19, y \in 0..19, z \in 0..9}
          /\ Cardinality({Blocks[i].pos : i \in DOMAIN Blocks}) = 4000
          /\ {i \in DOMAIN Blocks : Blocks[i].type = "grass"} =
                {i \in DOMAIN Blocks : Blocks[i].pos[3] = 0}
          /\ Cardinality({i \in DOMAIN Blocks : Blocks[i].type = "grass"}) = 400
          /\ Cardinality({i \in DOMAIN Blocks : Blocks[i].type = "dirt"}) = 3600

\* generateTerrain has completed and the game runs.
C5_Witness == pc = "run" /\ nextId = 4001 /\ loop = <<10, 0, 0>>

\* C6: a placed block has the type of the last numeric key (grass if none
\* was pressed); only a numeric key event changes the selected type.
C6_SelectedType ==
    [][/\ (PlaceStep /\ last'.done) => placed'[nextId].type = lastSelected
       /\ selectedBlockType' # selectedBlockType =>
             count'["select"] = count["select"] + 1
       /\ selectedBlockType' = lastSelected']_vars

\* A block of a type selected by key (not the startup grass) was placed.
C6_Witness ==
    /\ last.op = "place" /\ last.done
    /\ count["select"] > 0 /\ lastSelected # "grass"
    /\ placed[nextId - 1].type = lastSelected

\* C7: while the menu is active the camera position and orientation do not
\* change, whatever keys are held, clicks or pointer motion occur and
\* frames run.
C7_CameraFrozen ==
    [][menuActive => (camPos' = camPos /\ camHpr' = camHpr)]_vars

\* update has just run with the menu active and a movement key held.
C7_Witness ==
    /\ menuActive /\ pc = "collide" /\ count["frame"] > 0
    /\ \E a \in Actions : keyMap[a]

\* C8: whenever a click reads the first entry of the ray queue, the entry's
\* collision node carries its owner tag and the owner is a block in the world.
C8_OwnerPresent ==
    [][((PlaceStep \/ RemoveStep) /\ Len(rayQueue) > 0) =>
          (FirstRead.into \notin cleared /\ FirstRead.into \in InWorld)]_vars

\* C9: the menu is active exactly when the pointer is released and the
\* cursor visible.
C9_MenuIffReleased ==
    (pc \in {"run", "collide"}) =>
        /\ menuActive <=> ~cameraSwingActivated
        /\ menuActive <=> ~cursorHidden

\* C10: while the menu is active no click adds or removes a block.
C10_PausedWorldFixed ==
    [][menuActive => SameBlocks]_vars

====
